---- MODULE Spec2Model ----
(***************************************************************************)
(* A model of the EPREM plotting utilities:                                *)
(*   src/flux-energy.py    (Program A: flux versus energy)                 *)
(*   src/stream-survey.py  (Program B: survey plots per stream observer)   *)
(*   src/support/observers.py (the survey's normalizers, standalone)       *)
(*                                                                         *)
(* Python values are tagged records: the field t holds the Python type.    *)
(* A float is held in tenths (PyFloat(25) is 2.5): every numeric token of  *)
(* the model has at most one fractional digit.                             *)
(***************************************************************************)
EXTENDS Integers, Sequences, FiniteSets, TLC

VARIABLES
    user,        \* the keyword dictionary `user` of the call in progress
    call,        \* the function called last (normalizers, build_paths)
    result,      \* what that call returned or raised
    cwdEntries,  \* the listing of the current working directory
    inEntries,   \* the listing of the directory "in" below it
    indir,       \* build_paths / main: the argument indir
    runs,        \* build_paths / main: the argument runs
    prog,        \* which program's main is running: "A", "B" or "none"
    num,         \* main: the argument num (--stream)
    mainTime,    \* Program A's main: its variable time, once resolved
    pc,          \* the position of main
    items,       \* main: the resolved paths (A) or stream observers (B)
    idx,         \* main: 1-based index of the next run or stream
    panels,      \* one entry per axis drawn on: the series of that axis
    written,     \* the PNG files saved so far, in order
    err          \* how main ended: the step it was at and the exception

vars == <<user, call, result, cwdEntries, inEntries, indir, runs,
          prog, num, mainTime, pc, items, idx, panels, written, err>>

---------------------------------------------------------------------------
(* Python values *)

None == [t |-> "None"]

PyInt(n) == [t |-> "int", v |-> n]

PyFloat(tenths) == [t |-> "float", v |-> tenths]

PyStr(s) == [t |-> "str", v |-> s]

PyList(seq) == [t |-> "list", v |-> seq]

PyTuple(seq) == [t |-> "tuple", v |-> seq]

\* An exception propagating out of a call: kind is the exception class.
Raise(kind, arg) == [t |-> "raise", kind |-> kind, arg |-> arg]

IsRaise(x) == x.t = "raise"

\* main has raised nothing.
NoError == [at |-> "", exc |-> None]

\* main raised exc at step at.
Failed(at, exc) == [at |-> at, exc |-> exc]

\* dict.get(key): None when the key is missing.
DictGet(d, key) == IF key \in DOMAIN d THEN d[key] ELSE None

EmptyDict == [x \in {} |-> None]

---------------------------------------------------------------------------
(* The builtins int(), float() and the formatting of numbers *)

Digits == {"0", "1", "2", "3", "4", "5", "6", "7", "8", "9"}

DigitVal(c) == CHOOSE d \in 0..9 : ToString(d) = c

AllDigits(s) == \A i \in 1..Len(s) : SubSeq(s, i, i) \in Digits

RECURSIVE DigitsVal(_)
DigitsVal(s) ==
    IF Len(s) = 0 THEN 0
    ELSE 10 * DigitsVal(SubSeq(s, 1, Len(s) - 1)) + DigitVal(SubSeq(s, Len(s), Len(s)))

HasSign(s) == Len(s) > 0 /\ SubSeq(s, 1, 1) \in {"+", "-"}

Unsigned(s) == IF HasSign(s) THEN SubSeq(s, 2, Len(s)) ELSE s

Sign(s) == IF HasSign(s) /\ SubSeq(s, 1, 1) = "-" THEN -1 ELSE 1

\* int(str): an optional sign and one or more decimal digits.
IsIntLiteral(s) == Len(Unsigned(s)) > 0 /\ AllDigits(Unsigned(s))

\* The position of the first "." of s, or 0.
DotAt(s) ==
    IF \E i \in 1..Len(s) : SubSeq(s, i, i) = "."
    THEN CHOOSE i \in 1..Len(s) :
            /\ SubSeq(s, i, i) = "."
            /\ \A j \in 1..(i - 1) : SubSeq(s, j, j) # "."
    ELSE 0

IntPart(s) == IF DotAt(s) = 0 THEN s ELSE SubSeq(s, 1, DotAt(s) - 1)

FracPart(s) == IF DotAt(s) = 0 THEN "" ELSE SubSeq(s, DotAt(s) + 1, Len(s))

\* float(str): an optional sign, digits, an optional "." and digits, with at
\* least one digit. (Exponents, "inf" and "nan" are no tokens of the model.)
IsFloatLiteral(s) ==
    LET u == Unsigned(s)
    IN  /\ AllDigits(IntPart(u))
        /\ AllDigits(FracPart(u))
        /\ Len(IntPart(u)) + Len(FracPart(u)) > 0

\* The value of a float literal, in tenths.
FloatLiteralTenths(s) ==
    LET u == Unsigned(s)
        f == FracPart(u)
    IN  Sign(s) * (10 * DigitsVal(IntPart(u))
                   + (IF Len(f) = 0 THEN 0 ELSE DigitVal(SubSeq(f, 1, 1))))

\* Integer division truncating toward zero, as int(float) does.
TruncDiv(a, b) == IF a >= 0 THEN a \div b ELSE -((-a) \div b)

\* The builtin int(x).
BuiltinInt(x) ==
    CASE x.t = "int" -> x
      [] x.t = "float" -> PyInt(TruncDiv(x.v, 10))
      [] x.t = "str" ->
            IF IsIntLiteral(x.v)
            THEN PyInt(Sign(x.v) * DigitsVal(Unsigned(x.v)))
            ELSE Raise("ValueError", x)
      [] OTHER -> Raise("TypeError", x)

\* The builtin float(x).
BuiltinFloat(x) ==
    CASE x.t = "int" -> PyFloat(10 * x.v)
      [] x.t = "float" -> x
      [] x.t = "str" ->
            IF IsFloatLiteral(x.v)
            THEN PyFloat(FloatLiteralTenths(x.v))
            ELSE Raise("ValueError", x)
      [] OTHER -> Raise("TypeError", x)

Abs(n) == IF n < 0 THEN -n ELSE n

FormatInt(n) == IF n < 0 THEN "-" \o ToString(-n) ELSE ToString(n)

\* str(float): the shortest repr, which always shows a fractional part.
FormatFloat(tenths) ==
    (IF tenths < 0 THEN "-" ELSE "")
        \o ToString(Abs(tenths) \div 10) \o "." \o ToString(Abs(tenths) % 10)

---------------------------------------------------------------------------
(* eprempy.quantity: measurements (external library) *)

\* quantity.measure(*args): the last argument is the unit, the others the
\* magnitudes; a single list or tuple argument gives the magnitudes itself.
Measure(args) ==
    LET vals == SubSeq(args, 1, Len(args) - 1)
        flat == IF Len(vals) = 1 /\ vals[1].t \in {"list", "tuple"}
                THEN vals[1].v ELSE vals
    IN  [t |-> "Measurement", v |-> flat, unit |-> args[Len(args)].v]

\* A magnitude converted between units; the factor is the library's.
Convert(x, from, to) ==
    IF from = to THEN x
    ELSE [t |-> "converted", v |-> x, from |-> from, to |-> to]

\* Measurement.withunit(unit)
WithUnit(m, unit) ==
    [t |-> "Measurement",
     v |-> [i \in 1..Len(m.v) |-> Convert(m.v[i], m.unit, unit)],
     unit |-> unit]

\* str(float(magnitude)) of a single magnitude
FormatMagnitude(x) ==
    IF x.t = "float" THEN FormatFloat(x.v)
    ELSE IF x.t = "converted"
    THEN "(" \o FormatFloat(x.v.v) \o " " \o x.from \o " in " \o x.to \o ")"
    ELSE x.v

---------------------------------------------------------------------------
(* Program A's normalizers: src/flux-energy.py *)

\* get_time with "if not time" for "if time is None": an empty list is absent.
get_time_EmptyIsAbsent(u) ==
    LET time == DictGet(u, "time")
    IN  IF time.t = "None" \/ Len(time.v) = 0 THEN PyInt(0)
        ELSE IF Len(time.v) = 1 THEN BuiltinInt(time.v[1])
        ELSE IF Len(time.v) = 2
        THEN LET f == BuiltinFloat(time.v[1])
             IN  IF IsRaise(f) THEN f ELSE PyTuple(<<f, time.v[2]>>)
        ELSE Raise("ValueError", time)

get_time(u) ==
    LET time == DictGet(u, "time")
    IN  IF time.t = "None" THEN PyInt(0)
        ELSE IF Len(time.v) = 1 THEN BuiltinInt(time.v[1])
        ELSE IF Len(time.v) = 2
        THEN LET f == BuiltinFloat(time.v[1])
             IN  IF IsRaise(f) THEN f ELSE PyTuple(<<f, time.v[2]>>)
        ELSE Raise("ValueError", time)

get_shell(u) ==
    LET shell == DictGet(u, "shell")
    IN  IF shell.t = "None" THEN PyTuple(<<>>) ELSE PyTuple(shell.v)

\* [float(r) for r in seq]: the floats, or the first exception raised.
FloatsOf(seq) ==
    LET fs == [i \in 1..Len(seq) |-> BuiltinFloat(seq[i])]
    IN  IF \E i \in 1..Len(seq) : IsRaise(fs[i])
        THEN fs[CHOOSE i \in 1..Len(seq) :
                    /\ IsRaise(fs[i])
                    /\ \A j \in 1..(i - 1) : ~IsRaise(fs[j])]
        ELSE PyList(fs)

\* get_radius that drops the unit it found and uses 'au'.
get_radius_DefaultUnit(u) ==
    LET radius == DictGet(u, "radius")
    IN  IF radius.t = "None" THEN PyTuple(<<>>)
        ELSE IF Len(radius.v) = 1 THEN Measure(<<radius.v[1], PyStr("au")>>)
        ELSE IF Len(radius.v) = 0 THEN Raise("IndexError", radius)
        ELSE LET last == radius.v[Len(radius.v)]
                 f == BuiltinFloat(last)
             IN  IF IsRaise(f) /\ f.kind = "ValueError"
                 THEN LET values == FloatsOf(SubSeq(radius.v, 1, Len(radius.v) - 1))
                      IN  IF IsRaise(values) THEN values
                          ELSE Measure(values.v \o <<PyStr("au")>>)
                 ELSE IF IsRaise(f) THEN f
                 ELSE Measure(<<radius, PyStr("au")>>)

get_radius(u) ==
    LET radius == DictGet(u, "radius")
    IN  IF radius.t = "None" THEN PyTuple(<<>>)
        ELSE IF Len(radius.v) = 1 THEN Measure(<<radius.v[1], PyStr("au")>>)
        ELSE IF Len(radius.v) = 0 THEN Raise("IndexError", radius)
        ELSE LET last == radius.v[Len(radius.v)]
                 f == BuiltinFloat(last)
             IN  IF IsRaise(f) /\ f.kind = "ValueError"
                 THEN LET values == FloatsOf(SubSeq(radius.v, 1, Len(radius.v) - 1))
                      IN  IF IsRaise(values) THEN values
                          ELSE Measure(values.v \o <<last>>)
                 ELSE IF IsRaise(f) THEN f
                 ELSE Measure(<<radius, PyStr("au")>>)

---------------------------------------------------------------------------
(* Program B's normalizers and title: src/stream-survey.py *)

\* Python truth value of a list or None
Truthy(x) == x.t # "None" /\ (x.t \in {"list", "tuple"} => Len(x.v) > 0)

\* get_location without its last line: Python then returns None.
get_location_NoDefault(u) ==
    LET shell == DictGet(u, "shell")
        radius == DictGet(u, "radius")
    IN  IF shell.t # "None" THEN shell
        ELSE IF Truthy(radius)
        THEN LET f == BuiltinFloat(radius.v[1])
             IN  IF IsRaise(f) THEN f
                 ELSE IF Len(radius.v) < 2 THEN Raise("IndexError", radius)
                 ELSE WithUnit(Measure(<<f, radius.v[2]>>), "au")
        ELSE None

\* get_location with "if shell" for "if shell is not None": shell 0 is absent.
get_location_ShellTruthy(u) ==
    LET shell == DictGet(u, "shell")
        radius == DictGet(u, "radius")
    IN  IF shell.t # "None" /\ shell.v # 0 THEN shell
        ELSE IF Truthy(radius)
        THEN LET f == BuiltinFloat(radius.v[1])
             IN  IF IsRaise(f) THEN f
                 ELSE IF Len(radius.v) < 2 THEN Raise("IndexError", radius)
                 ELSE WithUnit(Measure(<<f, radius.v[2]>>), "au")
        ELSE PyInt(0)

get_location(u) ==
    LET shell == DictGet(u, "shell")
        radius == DictGet(u, "radius")
    IN  IF shell.t # "None" THEN shell
        ELSE IF Truthy(radius)
        THEN LET f == BuiltinFloat(radius.v[1])
             IN  IF IsRaise(f) THEN f
                 ELSE IF Len(radius.v) < 2 THEN Raise("IndexError", radius)
                 ELSE WithUnit(Measure(<<f, radius.v[2]>>), "au")
        ELSE PyInt(0)

get_species(u) ==
    LET species == DictGet(u, "species")
    IN  IF species.t # "None" THEN species ELSE PyInt(0)

\* src/support/observers.py: the same two normalizers, as a module of their own
observers_get_location(u) ==
    LET shell == DictGet(u, "shell")
        radius == DictGet(u, "radius")
    IN  IF shell.t # "None" THEN shell
        ELSE IF Truthy(radius)
        THEN LET f == BuiltinFloat(radius.v[1])
             IN  IF IsRaise(f) THEN f
                 ELSE IF Len(radius.v) < 2 THEN Raise("IndexError", radius)
                 ELSE WithUnit(Measure(<<f, radius.v[2]>>), "au")
        ELSE PyInt(0)

observers_get_species(u) ==
    LET species == DictGet(u, "species")
    IN  IF species.t # "None" THEN species ELSE PyInt(0)

\* stream.species.data of the observers of the model
SpeciesData == <<"H+", "He++">>

\* data[i] of a Python sequence: negative indices count from the end.
PyIndex(data, i) ==
    LET k == IF i < 0 THEN Len(data) + i + 1 ELSE i + 1
    IN  IF k \in 1..Len(data) THEN PyStr(data[k]) ELSE Raise("IndexError", PyInt(i))

make_suptitle(data, location, species) ==
    LET strloc ==
            IF location.t = "Measurement"
            THEN PyStr("radius = " \o FormatMagnitude(location.v[1])
                        \o " " \o location.unit)
            ELSE IF location.t = "int"
            THEN PyStr("shell = " \o FormatInt(location.v))
            ELSE Raise("TypeError", location)
        strspe ==
            IF species.t = "int"
            THEN LET sym == PyIndex(data, species.v)
                 IN  IF IsRaise(sym) THEN sym ELSE PyStr("species = " \o sym.v)
            ELSE IF species.t = "str"
            THEN PyStr("species = " \o species.v)
            ELSE Raise("TypeError", species)
    IN  IF IsRaise(strloc) THEN strloc
        ELSE IF IsRaise(strspe) THEN strspe
        ELSE PyStr(strloc.v \o " | " \o strspe.v)

\* plot_stream's title: the location and species it resolves, then the title.
SurveyTitle(u) ==
    LET location == get_location(u)
    IN  IF IsRaise(location) THEN location
        ELSE make_suptitle(SpeciesData, location, get_species(u))

---------------------------------------------------------------------------
(* The inputs of the normalizers *)

\* The longest --time, --radius and --shell lists of the model
MaxTimeLen == 3

MaxRadiusLen == 3

MaxShellLen == 2

\* nargs of the survey's --radius
SurveyRadiusNargs == 2

SeqsUpTo(S, n) == UNION {[1..k -> S] : k \in 0..n}

\* A key left out of the dictionary
Missing == [t |-> "missing"]

\* The dictionary of an assignment of keys to values, the Missing ones left out
MkDict(a) == [k \in {x \in DOMAIN a : a[x].t # "missing"} |-> a[k]]

Absent == {Missing, None}

TimeElems == {PyStr("5"), PyStr("2.5"), PyStr("hour"), PyInt(7)}

RadiusElems == {PyStr("1.0"), PyStr("2.5"), PyStr("au"), PyStr("km")}

ShellElems == {PyInt(0), PyInt(2)}

SurveyRadiusElems == {PyStr("1.5"), PyStr("au"), PyStr("km")}

TimeOpts == Absent \cup {PyList(s) : s \in SeqsUpTo(TimeElems, MaxTimeLen)}

RadiusOpts == Absent \cup {PyList(s) : s \in SeqsUpTo(RadiusElems, MaxRadiusLen)}

ShellOpts == Absent \cup {PyList(s) : s \in SeqsUpTo(ShellElems, MaxShellLen) \ {<<>>}}

SurveyShellOpts == Absent \cup {PyInt(0), PyInt(3)}

SurveyRadiusOpts ==
    Absent \cup {PyList(s) : s \in SeqsUpTo(SurveyRadiusElems, SurveyRadiusNargs)}

SpeciesOpts == Absent \cup {PyInt(0), PyInt(1), PyStr("He++")}

UsersTime ==
    {MkDict([time |-> t, shell |-> o, radius |-> o]) : t \in TimeOpts, o \in Absent}

UsersShell ==
    {MkDict([time |-> o, shell |-> s, radius |-> o]) : s \in ShellOpts, o \in Absent}

UsersRadius ==
    {MkDict([time |-> o, shell |-> o, radius |-> r]) : r \in RadiusOpts, o \in Absent}

UsersLocation ==
    {MkDict([shell |-> s, radius |-> r, species |-> None]) :
        s \in SurveyShellOpts, r \in SurveyRadiusOpts}

UsersSpecies ==
    {MkDict([shell |-> o, radius |-> o, species |-> p]) : p \in SpeciesOpts, o \in Absent}

UsersSurvey ==
    {MkDict([shell |-> s, radius |-> r, species |-> p]) :
        s \in SurveyShellOpts, r \in SurveyRadiusOpts, p \in SpeciesOpts}

---------------------------------------------------------------------------
(* The normalizers as operations: one call of one normalizer *)

InitNorm ==
    /\ user = EmptyDict
    /\ call = "none"
    /\ result = None
    /\ cwdEntries = <<>>
    /\ inEntries = <<>>
    /\ indir = None
    /\ runs = None
    /\ prog = "none"
    /\ num = None
    /\ mainTime = None
    /\ pc = "idle"
    /\ items = <<>>
    /\ idx = 0
    /\ panels = <<>>
    /\ written = <<>>
    /\ err = NoError

\* Each behaviour calls one normalizer once, on a dictionary of its own.
NormFrame ==
    /\ call = "none"
    /\ UNCHANGED <<cwdEntries, inEntries, indir, runs, prog, num, mainTime, pc,
                   items, idx, panels, written, err>>

Call_get_time ==
    \E u \in UsersTime :
        /\ NormFrame
        /\ user' = u /\ call' = "get_time" /\ result' = get_time(u)

Call_get_shell ==
    \E u \in UsersShell :
        /\ NormFrame
        /\ user' = u /\ call' = "get_shell" /\ result' = get_shell(u)

Call_get_radius ==
    \E u \in UsersRadius :
        /\ NormFrame
        /\ user' = u /\ call' = "get_radius" /\ result' = get_radius(u)

Call_get_location ==
    \E u \in UsersLocation :
        /\ NormFrame
        /\ user' = u /\ call' = "get_location" /\ result' = get_location(u)

Call_get_species ==
    \E u \in UsersSpecies :
        /\ NormFrame
        /\ user' = u /\ call' = "get_species" /\ result' = get_species(u)

Call_observers_get_location ==
    \E u \in UsersLocation :
        /\ NormFrame
        /\ user' = u /\ call' = "observers.get_location"
        /\ result' = observers_get_location(u)

Call_observers_get_species ==
    \E u \in UsersSpecies :
        /\ NormFrame
        /\ user' = u /\ call' = "observers.get_species"
        /\ result' = observers_get_species(u)

Call_make_suptitle ==
    \E u \in UsersSurvey :
        /\ NormFrame
        /\ user' = u /\ call' = "make_suptitle" /\ result' = SurveyTitle(u)

NextNorm ==
    \/ Call_get_time
    \/ Call_get_shell
    \/ Call_get_radius
    \/ Call_get_location
    \/ Call_get_species
    \/ Call_observers_get_location
    \/ Call_observers_get_species
    \/ Call_make_suptitle

SpecNorm == InitNorm /\ [][NextNorm]_vars

---------------------------------------------------------------------------
(* pathlib and the filesystem *)

\* A pathlib.Path: its parts; an absolute path starts with the part "/".
PyPath(parts) == [t |-> "Path", parts |-> parts]

\* The segments of s between "/" separators, in order.
RECURSIVE Segments(_)
Segments(s) ==
    IF Len(s) = 0 THEN <<>>
    ELSE IF \E i \in 1..Len(s) : SubSeq(s, i, i) = "/"
    THEN LET i == CHOOSE k \in 1..Len(s) :
                    /\ SubSeq(s, k, k) = "/"
                    /\ \A j \in 1..(k - 1) : SubSeq(s, j, j) # "/"
         IN  <<SubSeq(s, 1, i - 1)>> \o Segments(SubSeq(s, i + 1, Len(s)))
    ELSE <<s>>

\* pathlib.Path(x).parts of a string or a path: empty and "." segments drop.
PartsOf(x) ==
    IF x.t = "Path" THEN x.parts
    ELSE LET segs == SelectSeq(Segments(x.v), LAMBDA g : g \notin {"", "."})
         IN  IF Len(x.v) > 0 /\ SubSeq(x.v, 1, 1) = "/" THEN <<"/">> \o segs ELSE segs

IsAbsolute(parts) == Len(parts) > 0 /\ parts[1] = "/"

\* pathlib.Path.cwd()
Cwd == <<"/", "cwd">>

\* path / other: an absolute right operand replaces the left one.
JoinPath(parts, other) ==
    IF IsAbsolute(PartsOf(other)) THEN PartsOf(other) ELSE parts \o PartsOf(other)

\* eprempy.paths.fullpath (external): the absolute form of a string or path,
\* relative ones taken from the current directory.
fullpath(x) == JoinPath(Cwd, x)

InDir == Cwd \o <<"in">>

EntryKind(entries, name) ==
    IF \E i \in 1..Len(entries) : entries[i].name = name
    THEN entries[CHOOSE i \in 1..Len(entries) : entries[i].name = name].kind
    ELSE "absent"

\* What is at an absolute path: "dir", "file" or "absent". The directories
\* other than the current one and "in" are empty.
KindOf(fsCwd, fsIn, parts) ==
    IF parts = <<"/">> \/ parts = Cwd THEN "dir"
    ELSE IF Len(parts) = 3 /\ SubSeq(parts, 1, 2) = Cwd
    THEN EntryKind(fsCwd, parts[3])
    ELSE IF Len(parts) = 4 /\ SubSeq(parts, 1, 3) = InDir
            /\ EntryKind(fsCwd, "in") = "dir"
    THEN EntryKind(fsIn, parts[4])
    ELSE "absent"

\* The names in a directory, in the order the system lists them.
Listing(fsCwd, fsIn, parts) ==
    IF parts = <<"/">> THEN <<"cwd">>
    ELSE IF parts = Cwd THEN [i \in 1..Len(fsCwd) |-> fsCwd[i].name]
    ELSE IF parts = InDir /\ EntryKind(fsCwd, "in") = "dir"
    THEN [i \in 1..Len(fsIn) |-> fsIn[i].name]
    ELSE <<>>

\* fnmatch of one path segment: "*" matches any run of characters.
RECURSIVE FnMatch(_, _)
FnMatch(name, pat) ==
    IF Len(pat) = 0 THEN Len(name) = 0
    ELSE IF SubSeq(pat, 1, 1) = "*"
    THEN \E k \in 0..Len(name) :
            FnMatch(SubSeq(name, k + 1, Len(name)), SubSeq(pat, 2, Len(pat)))
    ELSE /\ Len(name) > 0
         /\ SubSeq(name, 1, 1) = SubSeq(pat, 1, 1)
         /\ FnMatch(SubSeq(name, 2, Len(name)), SubSeq(pat, 2, Len(pat)))

\* Path.glob(pattern) with a one-segment pattern: the matching entries of
\* the directory, as paths below it, in listing order.
Glob(fsCwd, fsIn, parts, pat) ==
    LET names == SelectSeq(Listing(fsCwd, fsIn, parts), LAMBDA n : FnMatch(n, pat))
    IN  [i \in 1..Len(names) |-> parts \o <<names[i]>>]

---------------------------------------------------------------------------
(* build_paths: src/flux-energy.py *)

\* CwdRuns without fullpath: the names come back as given.
CwdRuns_AsGiven(fsCwd, fsIn, r) ==
    IF r.t = "str"
    THEN [t |-> "generator", v |-> Glob(fsCwd, fsIn, Cwd, r.v)]
    ELSE PyTuple([i \in 1..Len(r.v) |-> PartsOf(r.v[i])])

\* runs given, indir not: a glob of the current directory for a string (a
\* generator, not a tuple), the names made absolute one by one otherwise.
CwdRuns(fsCwd, fsIn, r) ==
    IF r.t = "str"
    THEN LET found == Glob(fsCwd, fsIn, Cwd, r.v)
         IN  [t |-> "generator",
              v |-> [i \in 1..Len(found) |-> fullpath(PyPath(found[i]))]]
    ELSE PyTuple([i \in 1..Len(r.v) |-> fullpath(r.v[i])])

\* InferredRuns that wants at least one child: "contents and all(...)".
InferredRuns_NonEmpty(fsCwd, fsIn, path) ==
    LET contents == Glob(fsCwd, fsIn, path, "*")
    IN  IF /\ KindOf(fsCwd, fsIn, path) = "dir"
           /\ Len(contents) > 0
           /\ \A i \in 1..Len(contents) : KindOf(fsCwd, fsIn, contents[i]) = "dir"
        THEN PyTuple(contents)
        ELSE PyTuple(<<path>>)

\* indir given, runs not: the directory's children if all are directories.
InferredRuns(fsCwd, fsIn, path) ==
    LET contents == Glob(fsCwd, fsIn, path, "*")
    IN  IF /\ KindOf(fsCwd, fsIn, path) = "dir"
           /\ \A i \in 1..Len(contents) : KindOf(fsCwd, fsIn, contents[i]) = "dir"
        THEN PyTuple(contents)
        ELSE PyTuple(<<path>>)

\* The elements a for loop over runs sees: a string yields its characters.
Elements(r) ==
    IF r.t = "str" THEN [i \in 1..Len(r.v) |-> PyStr(SubSeq(r.v, i, i))] ELSE r.v

\* ListedRuns that takes a list of any length for one pattern: only the
\* first element is used.
ListedRuns_FirstOnly(fsCwd, fsIn, path, r) ==
    LET elems == Elements(r)
    IN  IF Len(elems) >= 1
        THEN LET found == Glob(fsCwd, fsIn, path, elems[1].v)
             IN  PyTuple([i \in 1..Len(found) |-> JoinPath(path, PyPath(found[i]))])
        ELSE PyTuple(<<>>)

\* indir and runs given: one element is a glob pattern below the directory,
\* any other number of elements are names joined to it.
ListedRuns(fsCwd, fsIn, path, r) ==
    LET elems == Elements(r)
    IN  IF Len(elems) = 1
        THEN LET found == Glob(fsCwd, fsIn, path, elems[1].v)
             IN  PyTuple([i \in 1..Len(found) |-> JoinPath(path, PyPath(found[i]))])
        ELSE PyTuple([i \in 1..Len(elems) |-> JoinPath(path, elems[i])])

build_paths(fsCwd, fsIn, d, r) ==
    IF r.t = "None" /\ d.t = "None" THEN PyTuple(<<Cwd>>)
    ELSE IF d.t = "None" THEN CwdRuns(fsCwd, fsIn, r)
    ELSE IF r.t = "None" THEN InferredRuns(fsCwd, fsIn, fullpath(d))
    ELSE ListedRuns(fsCwd, fsIn, fullpath(d), r)

---------------------------------------------------------------------------
(* The inputs of build_paths *)

\* The most entries of a directory, and the longest --runs list
MaxEntries == 2

MaxRuns == 2

Kinds == {"dir", "file"}

\* The listings of up to n entries with different names
EntryLists(names, n) ==
    {s \in SeqsUpTo([name : names, kind : Kinds], n) :
        \A i, j \in 1..Len(s) : i # j => s[i].name # s[j].name}

CwdListings == EntryLists({"in", "r1"}, MaxEntries)

InListings == EntryLists({"r1", "r2", "notes"}, MaxEntries)

IndirOpts == {None, PyStr("in"), PyStr("/cwd/in")}

RunNames == {"r1", "r*", "zz"}

RunsOpts ==
    {None} \cup {PyStr(n) : n \in RunNames}
           \cup {PyList(s) : s \in SeqsUpTo({PyStr(n) : n \in RunNames}, MaxRuns)}

InitPaths ==
    /\ user = EmptyDict
    /\ call = "none"
    /\ result = None
    /\ cwdEntries \in CwdListings
    /\ inEntries \in IF EntryKind(cwdEntries, "in") = "dir" THEN InListings ELSE {<<>>}
    /\ indir \in IndirOpts
    /\ runs \in RunsOpts
    /\ prog = "none"
    /\ num = None
    /\ mainTime = None
    /\ pc = "idle"
    /\ items = <<>>
    /\ idx = 0
    /\ panels = <<>>
    /\ written = <<>>
    /\ err = NoError

Call_build_paths ==
    /\ call = "none"
    /\ call' = "build_paths"
    /\ result' = build_paths(cwdEntries, inEntries, indir, runs)
    /\ UNCHANGED <<user, cwdEntries, inEntries, indir, runs, prog, num, mainTime,
                   pc, items, idx, panels, written, err>>

NextPaths == Call_build_paths

SpecPaths == InitPaths /\ [][NextPaths]_vars

---------------------------------------------------------------------------
(* Program A: add_panel and main of src/flux-energy.py *)

\* The curve of one pass of the loop over radii, labelled with float(r) and
\* the unit, or what float(r) raises.
RadiusCurve(mag, unit) ==
    LET f == BuiltinFloat(mag)
    IN  IF IsRaise(f) THEN f
        ELSE [kind |-> "radius",
              label |-> "r = " \o FormatFloat(f.v) \o " " \o unit]

\* The loop over radii: one curve per magnitude, up to the first that
\* raises; the empty tuple gives none.
RadiusCurves(radii) ==
    IF radii.t # "Measurement" THEN [series |-> <<>>, exc |-> None]
    ELSE LET cs == [i \in 1..Len(radii.v) |-> RadiusCurve(radii.v[i], radii.unit)]
             bad == {i \in 1..Len(cs) : IsRaise(BuiltinFloat(radii.v[i]))}
         IN  IF bad = {} THEN [series |-> cs, exc |-> None]
             ELSE LET k == CHOOSE i \in bad : \A j \in bad : i <= j
                  IN  [series |-> SubSeq(cs, 1, k - 1), exc |-> cs[k]]

\* The series add_panel has plotted on its axis, in plotting order, and what
\* it raised, if anything.
add_panel(u) ==
    LET tm == get_time(u)
        seed == <<[kind |-> "seed", label |-> "Seed spectrum"]>>
        radii == get_radius(u)
        curves == RadiusCurves(radii)
        shells == get_shell(u)
        markers == [i \in 1..Len(shells.v) |->
                        [kind |-> "shell",
                         label |-> "shell = " \o FormatInt(shells.v[i].v)]]
    IN  IF IsRaise(tm) THEN [series |-> <<>>, exc |-> tm]
        ELSE IF IsRaise(radii) THEN [series |-> seed, exc |-> radii]
        ELSE IF IsRaise(curves.exc) THEN [series |-> seed \o curves.series, exc |-> curves.exc]
        ELSE [series |-> seed \o curves.series \o markers, exc |-> None]

\* f'stream{num}_flux-t{time[0]}h.png': time[0] of an int raises TypeError.
PlotName(n, tm) ==
    IF tm.t = "tuple"
    THEN PyStr("stream" \o FormatInt(n.v) \o "_flux-t"
                \o FormatFloat(tm.v[1].v) \o "h.png")
    ELSE Raise("TypeError", tm)

\* A failure of the data library or the plotting backend
ExternalError == Raise("ExternalError", None)

MainFrame == UNCHANGED <<user, call, result, cwdEntries, inEntries, indir, runs, prog, num>>

\* main, lines 24-33: the paths and the figure with one axis per path.
A_BuildPaths ==
    /\ prog = "A" /\ pc = "A_build"
    /\ LET paths == build_paths(cwdEntries, inEntries, indir, runs)
       IN  IF paths.t = "generator"
           THEN /\ err' = Failed(pc, Raise("TypeError", None))
                /\ pc' = "done"
                /\ UNCHANGED <<items, panels>>
           ELSE IF Len(paths.v) = 0
           THEN /\ err' = Failed(pc, Raise("ValueError", PyInt(0)))
                /\ pc' = "done"
                /\ UNCHANGED <<items, panels>>
           ELSE /\ items' = paths.v
                /\ panels' = [i \in 1..Len(paths.v) |-> <<>>]
                /\ pc' = "A_time"
                /\ err' = err
    /\ UNCHANGED <<mainTime, idx, written>>
    /\ MainFrame

\* main, lines 34-39: the time and its label.
A_GetTime ==
    /\ prog = "A" /\ pc = "A_time"
    /\ LET tm == get_time(user)
       IN  IF IsRaise(tm)
           THEN /\ err' = Failed(pc, tm)
                /\ pc' = "done"
                /\ UNCHANGED <<mainTime, idx>>
           ELSE /\ mainTime' = tm
                /\ idx' = 1
                /\ pc' = "A_plot"
                /\ err' = err
    /\ UNCHANGED <<items, panels, written>>
    /\ MainFrame

\* A_PlotRun that isolates a failing run: it notes the failure and goes on.
A_PlotRun_SkipFailed ==
    /\ prog = "A" /\ pc = "A_plot"
    /\ \E ok \in BOOLEAN :
        LET panel == add_panel(user)
        IN  /\ IF ~ok \/ KindOf(cwdEntries, inEntries, items[idx]) = "absent"
               THEN err' = Failed(pc, ExternalError) /\ UNCHANGED panels
               ELSE /\ panels' = [panels EXCEPT ![idx] = panel.series]
                    /\ err' = IF IsRaise(panel.exc) THEN Failed(pc, panel.exc) ELSE err
            /\ idx' = idx + 1
            /\ pc' = IF idx = Len(items) THEN "A_save" ELSE "A_plot"
    /\ UNCHANGED <<mainTime, items, written>>
    /\ MainFrame

\* One pass of plot_multiple's loop, or plot_single: open the stream of the
\* run and add its panel. Opening a run that is not there fails; a run that
\* is there may still lack data. What add_panel plotted before it raised
\* stays on the axis.
A_PlotRun ==
    /\ prog = "A" /\ pc = "A_plot"
    /\ \E ok \in BOOLEAN :
        LET panel == add_panel(user)
        IN  IF ~ok \/ KindOf(cwdEntries, inEntries, items[idx]) = "absent"
            THEN /\ err' = Failed(pc, ExternalError)
                 /\ pc' = "done"
                 /\ UNCHANGED <<idx, panels>>
            ELSE IF IsRaise(panel.exc)
            THEN /\ err' = Failed(pc, panel.exc)
                 /\ panels' = [panels EXCEPT ![idx] = panel.series]
                 /\ pc' = "done"
                 /\ UNCHANGED idx
            ELSE /\ panels' = [panels EXCEPT ![idx] = panel.series]
                 /\ idx' = idx + 1
                 /\ pc' = IF idx = Len(items) THEN "A_save" ELSE "A_plot"
                 /\ err' = err
    /\ UNCHANGED <<mainTime, items, written>>
    /\ MainFrame

\* main, lines 44-51: the output directory, the file name and the figure.
A_Save ==
    /\ prog = "A" /\ pc = "A_save"
    /\ LET name == PlotName(num, mainTime)
       IN  IF IsRaise(name)
           THEN /\ err' = Failed(pc, name)
                /\ UNCHANGED written
           ELSE /\ written' = Append(written, name.v)
                /\ err' = err
    /\ pc' = "done"
    /\ UNCHANGED <<mainTime, items, idx, panels>>
    /\ MainFrame

---------------------------------------------------------------------------
(* Program B: main of src/stream-survey.py *)

\* The number of stream observers of the dataset
NumStreams == 2

\* The file of stream observer n
StreamSource(n) == "obs" \o ToString(n) \o ".nc"

\* The position of the last "." of s, or 0.
LastDot(s) ==
    IF \E i \in 1..Len(s) : SubSeq(s, i, i) = "."
    THEN CHOOSE i \in 1..Len(s) :
            /\ SubSeq(s, i, i) = "."
            /\ \A j \in (i + 1)..Len(s) : SubSeq(s, j, j) # "."
    ELSE 0

\* Path.with_suffix(suffix).name
WithSuffix(name, suffix) ==
    IF LastDot(name) <= 1 THEN name \o suffix
    ELSE SubSeq(name, 1, LastDot(name) - 1) \o suffix

\* The observers main plots: the one numbered num, or all of them.
get_streams(n) ==
    IF n.t = "int"
    THEN IF n.v \in 0..(NumStreams - 1) THEN PyList(<<n.v>>)
         ELSE Raise("KeyError", n)
    ELSE PyList([i \in 1..NumStreams |-> i - 1])

\* main, lines 30-34: the dataset, its observers and the output directory.
B_Open ==
    /\ prog = "B" /\ pc = "B_open"
    /\ \E ok \in BOOLEAN :
        LET streams == get_streams(num)
        IN  IF ~ok
            THEN /\ err' = Failed(pc, ExternalError)
                 /\ pc' = "done"
                 /\ UNCHANGED <<items, idx>>
            ELSE IF IsRaise(streams)
            THEN /\ err' = Failed(pc, streams)
                 /\ pc' = "done"
                 /\ UNCHANGED <<items, idx>>
            ELSE /\ items' = streams.v
                 /\ idx' = 1
                 /\ pc' = "B_plot"
                 /\ err' = err
    /\ UNCHANGED <<mainTime, panels, written>>
    /\ MainFrame

\* One pass of main's loop, lines 35-43: plot the observer, save its figure.
B_PlotStream ==
    /\ prog = "B" /\ pc = "B_plot"
    /\ \E ok \in BOOLEAN :
        LET location == get_location(user)
            title == SurveyTitle(user)
        IN  IF IsRaise(location)
            THEN /\ err' = Failed(pc, location)
                 /\ pc' = "done"
                 /\ UNCHANGED <<idx, panels, written>>
            ELSE IF ~ok
            THEN /\ err' = Failed(pc, ExternalError)
                 /\ pc' = "done"
                 /\ UNCHANGED <<idx, panels, written>>
            ELSE IF IsRaise(title)
            THEN /\ err' = Failed(pc, title)
                 /\ pc' = "done"
                 /\ UNCHANGED <<idx, panels, written>>
            ELSE /\ panels' = Append(panels, <<[kind |-> "survey", label |-> title.v]>>)
                 /\ written' = Append(written, WithSuffix(StreamSource(items[idx]), ".png"))
                 /\ idx' = idx + 1
                 /\ pc' = IF idx = Len(items) THEN "done" ELSE "B_plot"
                 /\ err' = err
    /\ UNCHANGED <<mainTime, items>>
    /\ MainFrame

---------------------------------------------------------------------------
(* The invocations of the two programs *)

MainFilesystems ==
    {<<[name |-> "r1", kind |-> "dir"]>>,
     <<[name |-> "r1", kind |-> "dir"], [name |-> "r2", kind |-> "dir"]>>,
     <<[name |-> "r1", kind |-> "dir"], [name |-> "notes", kind |-> "file"]>>,
     <<>>}

MainRuns ==
    {None, PyList(<<PyStr("r*")>>), PyList(<<PyStr("r1"), PyStr("zz")>>),
     PyList(<<PyStr("r1"), PyStr("r2")>>)}

MainTimes ==
    {None, PyList(<<PyStr("5")>>), PyList(<<PyStr("2.5"), PyStr("hour")>>),
     PyList(<<PyStr("1"), PyStr("2"), PyStr("3")>>)}

MainShells == {None, PyList(<<PyInt(0), PyInt(2)>>)}

MainRadii ==
    {None, PyList(<<PyStr("1.0"), PyStr("au")>>),
     PyList(<<PyStr("1.0"), PyStr("2.5")>>), PyList(<<PyStr("au"), PyStr("au")>>)}

SurveyUsers ==
    {MkDict([shell |-> s, radius |-> r, species |-> p]) :
        s \in {None, PyInt(0)},
        r \in {None, PyList(<<PyStr("1.5"), PyStr("au")>>),
               PyList(<<PyStr("au"), PyStr("km")>>)},
        p \in {None, PyStr("He++")}}

InitA ==
    /\ prog = "A"
    /\ pc = "A_build"
    /\ cwdEntries = <<[name |-> "in", kind |-> "dir"]>>
    /\ inEntries \in MainFilesystems
    /\ indir \in {None, PyStr("in")}
    /\ runs \in MainRuns
    /\ num \in {PyInt(0), PyInt(3)}
    /\ user \in {MkDict([time |-> t, shell |-> s, radius |-> r]) :
                    t \in MainTimes, s \in MainShells, r \in MainRadii}

InitB ==
    /\ prog = "B"
    /\ pc = "B_open"
    /\ cwdEntries = <<>>
    /\ inEntries = <<>>
    /\ indir = None
    /\ runs = None
    /\ num \in {None} \cup {PyInt(n) : n \in 0..NumStreams}
    /\ user \in SurveyUsers

InitMain ==
    /\ InitA \/ InitB
    /\ call = "none"
    /\ result = None
    /\ mainTime = None
    /\ items = <<>>
    /\ idx = 0
    /\ panels = <<>>
    /\ written = <<>>
    /\ err = NoError

NextMain ==
    \/ A_BuildPaths
    \/ A_GetTime
    \/ A_PlotRun
    \/ A_Save
    \/ B_Open
    \/ B_PlotStream

SpecMain == InitMain /\ [][NextMain]_vars

---------------------------------------------------------------------------
(* Properties of the normalizers, checked under SpecNorm *)

Given(key) == DictGet(user, key).t # "None"

\* Whether string s contains sub.
Contains(s, sub) ==
    \E i \in 1..(Len(s) - Len(sub) + 1) : SubSeq(s, i, i + Len(sub) - 1) = sub

IsValueError(x) == IsRaise(x) /\ x.kind = "ValueError"

IntConverts(x) == ~IsRaise(BuiltinInt(x))

FloatConverts(x) == ~IsRaise(BuiltinFloat(x))

\* C2 as stated: get_time maps the 'time' value by its length alone: absent
\* gives index 0, one element gives an integer, two elements give the pair
\* (float, unit), and any other length raises a ValueError.
C2_TimeByLengthAlone ==
    call = "get_time" =>
        LET time == DictGet(user, "time")
        IN  /\ ~Given("time") => result.t = "int" /\ result.v = 0
            /\ (Given("time") /\ Len(time.v) = 1) => result.t = "int"
            /\ (Given("time") /\ Len(time.v) = 2) =>
                    /\ result.t = "tuple"
                    /\ result.v[1].t = "float"
                    /\ result.v[2] = time.v[2]
            /\ (Given("time") /\ Len(time.v) \notin {1, 2}) => IsValueError(result)

\* C2, amended: get_time maps the 'time' value by its length: absent gives
\* index 0; one element gives int(element) when the element converts to an
\* integer and the conversion's ValueError otherwise; two elements give
\* (float(first), second unchanged) when the first converts to a float and
\* the conversion's ValueError otherwise; any other length, the empty list
\* included, raises a ValueError and returns nothing.
C2_TimeByLength ==
    call = "get_time" =>
        LET time == DictGet(user, "time")
        IN  /\ ~Given("time") => result.t = "int" /\ result.v = 0
            /\ (Given("time") /\ Len(time.v) = 1) =>
                    IF IntConverts(time.v[1])
                    THEN /\ result.t = "int"
                         /\ time.v[1].t = "str" => FormatInt(result.v) = time.v[1].v
                         /\ time.v[1].t = "int" => result.v = time.v[1].v
                    ELSE IsValueError(result)
            /\ (Given("time") /\ Len(time.v) = 2) =>
                    IF FloatConverts(time.v[1])
                    THEN /\ result.t = "tuple"
                         /\ Len(result.v) = 2
                         /\ result.v[1] = BuiltinFloat(time.v[1])
                         /\ result.v[2] = time.v[2]
                    ELSE IsValueError(result)
            /\ (Given("time") /\ Len(time.v) \notin {1, 2}) =>
                    IsValueError(result) /\ result.arg = time

\* A (value, unit) pair was normalized.
C2_Witness ==
    /\ call = "get_time"
    /\ Given("time") /\ Len(DictGet(user, "time").v) = 2
    /\ result.t = "tuple" /\ result.v[1] = PyFloat(25) /\ result.v[2] = PyStr("hour")

\* C3: each normalizer returns its default both when its key is missing and
\* when the key is mapped to None: time 0, shell (), radius (), species 0,
\* location shell index 0.
C3_AbsentGivesDefault ==
    /\ (call = "get_time" /\ ~Given("time")) => result.t = "int" /\ result.v = 0
    /\ (call = "get_shell" /\ ~Given("shell")) => result.t = "tuple" /\ result.v = <<>>
    /\ (call = "get_radius" /\ ~Given("radius")) => result.t = "tuple" /\ result.v = <<>>
    /\ (call \in {"get_species", "observers.get_species"} /\ ~Given("species")) =>
            result.t = "int" /\ result.v = 0
    /\ (call \in {"get_location", "observers.get_location"}
            /\ ~Given("shell") /\ ~Given("radius")) =>
            result.t = "int" /\ result.v = 0

\* The key is in the dictionary, mapped to None, and the default came back.
C3_Witness ==
    /\ call = "get_location"
    /\ {"shell", "radius"} \subseteq DOMAIN user
    /\ user["shell"].t = "None" /\ user["radius"].t = "None"
    /\ result.t = "int" /\ result.v = 0

AllFloatLiterals(seq) == \A i \in 1..Len(seq) : FloatConverts(seq[i])

\* C7 as stated: with two or more elements and a last element that is no
\* number, get_radius returns the floats of all preceding elements in the
\* unit named last, whatever the preceding elements are.
C7_RadiusAsStated ==
    call = "get_radius" =>
        LET radius == DictGet(user, "radius")
        IN  /\ ~Given("radius") => result.t = "tuple" /\ result.v = <<>>
            /\ (Given("radius") /\ Len(radius.v) = 1) =>
                    /\ result.t = "Measurement"
                    /\ result.v = radius.v /\ result.unit = "au"
            /\ (Given("radius") /\ Len(radius.v) >= 2
                    /\ ~FloatConverts(radius.v[Len(radius.v)])) =>
                    /\ result.t = "Measurement"
                    /\ Len(result.v) = Len(radius.v) - 1
                    /\ \A i \in 1..(Len(radius.v) - 1) :
                            result.v[i] = BuiltinFloat(radius.v[i])
                    /\ result.unit = radius.v[Len(radius.v)].v
            /\ (Given("radius") /\ Len(radius.v) >= 2 /\ AllFloatLiterals(radius.v)) =>
                    /\ result.t = "Measurement"
                    /\ result.v = radius.v /\ result.unit = "au"

\* C7, amended: absent gives the empty sequence; one element gives a single
\* measurement of it in 'au'; two or more elements with a last element that
\* is no number give the floats of the preceding elements, in order, in the
\* unit named last, provided every preceding element converts to a float,
\* and the conversion's ValueError otherwise; two or more elements that are
\* all numeric give all of them, in order, in 'au'.
C7_Radius ==
    call = "get_radius" =>
        LET radius == DictGet(user, "radius")
            n == Len(radius.v)
        IN  /\ ~Given("radius") => result.t = "tuple" /\ result.v = <<>>
            /\ (Given("radius") /\ n = 1) =>
                    /\ result.t = "Measurement"
                    /\ result.v = radius.v /\ result.unit = "au"
            /\ (Given("radius") /\ n >= 2 /\ ~FloatConverts(radius.v[n])) =>
                    IF AllFloatLiterals(SubSeq(radius.v, 1, n - 1))
                    THEN /\ result.t = "Measurement"
                         /\ Len(result.v) = n - 1
                         /\ \A i \in 1..(n - 1) : result.v[i] = BuiltinFloat(radius.v[i])
                         /\ result.unit = radius.v[n].v
                    ELSE IsValueError(result)
            /\ (Given("radius") /\ n >= 2 /\ AllFloatLiterals(radius.v)) =>
                    /\ result.t = "Measurement"
                    /\ result.v = radius.v /\ result.unit = "au"

\* Two magnitudes and a unit were normalized.
C7_Witness ==
    /\ call = "get_radius"
    /\ Given("radius")
    /\ DictGet(user, "radius").v = <<PyStr("1.0"), PyStr("2.5"), PyStr("au")>>
    /\ result.t = "Measurement"
    /\ result.v = <<PyFloat(10), PyFloat(25)>> /\ result.unit = "au"

\* C8: the survey's get_location returns the shell whenever one is given
\* (shell 0 included, a radius given or not), a single measurement in 'au'
\* only when no shell but a radius is given, and shell 0 when neither is;
\* then the title holds "shell = 0" and no TypeError is raised.
C8_Location ==
    /\ call = "get_location" =>
        LET shell == DictGet(user, "shell")
            radius == DictGet(user, "radius")
        IN  /\ Given("shell") => result = shell
            /\ result.t = "Measurement" =>
                    /\ ~Given("shell") /\ Given("radius")
                    /\ Len(result.v) = 1 /\ result.unit = "au"
            /\ (~Given("shell") /\ Given("radius") /\ Len(radius.v) >= 2
                    /\ FloatConverts(radius.v[1])) => result.t = "Measurement"
            /\ (~Given("shell") /\ ~Given("radius")) => result.t = "int" /\ result.v = 0
    /\ (call = "make_suptitle" /\ ~Given("shell") /\ ~Given("radius")) =>
            /\ result.t = "str"
            /\ Contains(result.v, "shell = 0")

\* The survey's title was made with neither a shell nor a radius given.
C8_Witness ==
    /\ call = "make_suptitle"
    /\ ~Given("shell") /\ ~Given("radius") /\ ~Given("species")
    /\ result.t = "str" /\ result.v = "shell = 0 | species = H+"

---------------------------------------------------------------------------
(* Properties of build_paths, checked under SpecPaths *)

ExplicitList == runs.t = "list" /\ Len(runs.v) >= 1

\* Whether parts ends with the parts of the name.
EndsWith(parts, name) ==
    LET q == PartsOf(name)
    IN  /\ Len(parts) >= Len(q)
        /\ SubSeq(parts, Len(parts) - Len(q) + 1, Len(parts)) = q

OnePathPerName ==
    /\ result.t = "tuple"
    /\ Len(result.v) = Len(runs.v)
    /\ \A i \in 1..Len(runs.v) : EndsWith(result.v[i], runs.v[i])

\* C4 as stated: an explicit list of one or more run names, with or without
\* a base directory, gives one path per name, in order, whatever exists.
C4_OnePathPerNameAlways ==
    (call = "build_paths" /\ ExplicitList) => OnePathPerName

\* C4, amended: an explicit list of run names gives exactly one path per
\* name, in order, whatever exists on the filesystem, when no base directory
\* is given (any length of 1 or more) or when the list has two or more
\* names; a one-name list with a base directory is a glob pattern.
C4_OnePathPerName ==
    (call = "build_paths" /\ ExplicitList /\ (indir.t = "None" \/ Len(runs.v) >= 2))
        => OnePathPerName

\* Two names that do not exist below the base directory came back in order.
C4_Witness ==
    /\ call = "build_paths"
    /\ indir.t = "str"
    /\ runs = PyList(<<PyStr("zz"), PyStr("r1")>>)
    /\ EntryKind(cwdEntries, "in") = "dir" /\ inEntries = <<>>
    /\ result.v = <<InDir \o <<"zz">>, InDir \o <<"r1">>>>

BaseOnly == call = "build_paths" /\ indir.t # "None" /\ runs.t = "None"

\* The children of "in" as the filesystem holds them
InChildren == [i \in 1..Len(inEntries) |-> InDir \o <<inEntries[i].name>>]

\* C5: with a base directory and no selector, build_paths returns the list
\* of the base's children when the base is a directory and every child is a
\* directory (none at all included), and the base alone otherwise.
C5_DirectoryInference ==
    BaseOnly =>
        /\ result.t = "tuple"
        /\ IF /\ EntryKind(cwdEntries, "in") = "dir"
              /\ \A i \in 1..Len(inEntries) : inEntries[i].kind = "dir"
           THEN result.v = InChildren
           ELSE result.v = <<InDir>>

\* A base directory without children gave the empty selection.
C5_Witness ==
    /\ BaseOnly
    /\ EntryKind(cwdEntries, "in") = "dir" /\ inEntries = <<>>
    /\ result.v = <<>>

Exists(parts) == KindOf(cwdEntries, inEntries, parts) # "absent"

\* C6 as stated: every element build_paths returns is an absolute path that
\* exists.
C6_AbsoluteAndExisting ==
    call = "build_paths" =>
        \A i \in 1..Len(result.v) : IsAbsolute(result.v[i]) /\ Exists(result.v[i])

\* Whether the selection came from the filesystem: the current directory, a
\* glob, or the inferred children of an existing base directory.
FromFilesystem ==
    \/ indir.t = "None" /\ runs.t \in {"None", "str"}
    \/ indir.t # "None" /\ runs.t = "None" /\ Exists(InDir)
    \/ indir.t # "None" /\ runs.t = "list" /\ Len(runs.v) = 1
    \/ indir.t # "None" /\ runs.t = "str" /\ Len(runs.v) = 1

\* C6, amended: every element build_paths returns is an absolute path; it
\* exists when the selection is the current directory, the matches of a glob
\* or the base directory's children or the existing base itself, while names
\* of an explicit list and a base directory that is absent come back
\* unchecked.
C6_AbsoluteAndFound ==
    call = "build_paths" =>
        /\ \A i \in 1..Len(result.v) : IsAbsolute(result.v[i])
        /\ FromFilesystem => \A i \in 1..Len(result.v) : Exists(result.v[i])

\* A glob below the base directory found two runs.
C6_Witness ==
    /\ call = "build_paths"
    /\ indir = PyStr("in") /\ runs = PyList(<<PyStr("r*")>>)
    /\ Len(result.v) = 2
    /\ \A i \in 1..2 : IsAbsolute(result.v[i]) /\ Exists(result.v[i])

---------------------------------------------------------------------------
(* Properties of the two programs, checked under SpecMain *)

\* The {time} of the file name: the index, or the value of a pair
TimeText ==
    IF mainTime.t = "int" THEN FormatInt(mainTime.v)
    ELSE FormatFloat(mainTime.v[1].v)

\* Program A ended with every panel rendered.
RenderedA == prog = "A" /\ pc = "done" /\ err.at \in {"", "A_save"}

\* C1: an invocation of Program A with valid arguments whose rendering
\* succeeds writes exactly one PNG named stream{num}_flux-t{time}h.png, for
\* an absent time, an integer index and a (value, unit) pair alike: naming
\* the file never fails once the panels are rendered.
C1_OnePngPerInvocation ==
    RenderedA =>
        /\ err.exc.t = "None"
        /\ Len(written) = 1
        /\ written[1] = "stream" \o FormatInt(num.v) \o "_flux-t" \o TimeText \o "h.png"

\* A run or stream observer failed while it was being processed.
FailedInBatch == err.at \in {"A_plot", "B_plot"}

\* The PNG files of the first n stream observers
SurveyPngs(n) == [i \in 1..n |-> WithSuffix(StreamSource(items[i]), ".png")]

\* C9 as stated: when one run or stream observer of a batch fails, the
\* invocation stops there and no PNG has been written by it.
C9_NothingWritten ==
    FailedInBatch => pc = "done" /\ written = <<>>

\* C9, amended: when one run or stream observer of a batch fails, the
\* invocation stops at that point and no later run or stream is processed;
\* Program A has then written no PNG, and Program B has written exactly
\* the PNGs of the stream observers it processed before the failing one.
C9_FailFast ==
    FailedInBatch =>
        /\ pc = "done"
        /\ ~ENABLED NextMain
        /\ idx \in 1..Len(items)
        /\ prog = "A" =>
                /\ written = <<>>
                /\ \A i \in (idx + 1)..Len(items) : panels[i] = <<>>
        /\ prog = "B" =>
                /\ written = SurveyPngs(idx - 1)
                /\ Len(panels) = idx - 1

\* The second stream observer failed after the first one's PNG was saved.
C9_Witness ==
    /\ prog = "B" /\ pc = "done" /\ err.at = "B_plot"
    /\ Len(items) = 2 /\ idx = 2
    /\ written = <<"obs0.png">>

\* The number of radius curves the 'radius' value asks for
RadiusCount(r) ==
    IF r.t = "None" THEN 0
    ELSE IF Len(r.v) = 1 THEN 1
    ELSE IF FloatConverts(r.v[Len(r.v)]) THEN Len(r.v)
    ELSE Len(r.v) - 1

ShellList(s) == IF s.t = "None" THEN <<>> ELSE s.v

\* A panel holds the seed spectrum, then the radius curves, then one marker
\* series per shell, in input order.
PanelInOrder(panel) ==
    LET R == RadiusCount(DictGet(user, "radius"))
        shells == ShellList(DictGet(user, "shell"))
    IN  /\ Len(panel) = 1 + R + Len(shells)
        /\ panel[1] = [kind |-> "seed", label |-> "Seed spectrum"]
        /\ \A i \in 2..(1 + R) : panel[i].kind = "radius"
        /\ \A i \in 1..Len(shells) :
                panel[1 + R + i] =
                    [kind |-> "shell", label |-> "shell = " \o FormatInt(shells[i].v)]

\* The first half of C10 alone: every panel add_panel has completed is in
\* order.
C10_SeriesInOrder ==
    prog = "A" => \A i \in 1..(idx - 1) : PanelInOrder(panels[i])

\* Program A run with shells 0 and 2 and radius 1.0 au on a single run
ScenarioC10 ==
    /\ prog = "A"
    /\ DictGet(user, "shell") = PyList(<<PyInt(0), PyInt(2)>>)
    /\ DictGet(user, "radius") = PyList(<<PyStr("1.0"), PyStr("au")>>)
    /\ Len(items) = 1

\* C10: add_panel draws 1 + R + S series: the seed spectrum, then one curve
\* per radius, then one marker series per shell, in input order; so Program
\* A with shells 0 and 2 and radius 1.0 au on a single run yields one panel
\* of one reference curve, one radius curve and two shell-marker series, and
\* exactly one output figure.
C10_PanelAndFigure ==
    /\ C10_SeriesInOrder
    /\ (ScenarioC10 /\ RenderedA) =>
            /\ Len(panels) = 1
            /\ [i \in 1..Len(panels[1]) |-> panels[1][i].kind]
                    = <<"seed", "radius", "shell", "shell">>
            /\ Len(written) = 1

====
